---- MODULE Spec2Model ----
(***************************************************************************)
(* A model of linkrot's crawl engine (package linkcheck): the coordinator  *)
(* loop of crawler.crawl with its worker pool, the work queue, the page    *)
(* store, the fetcher and the validator crawledPages.toURLErrors.          *)
(*                                                                         *)
(* A URL string is a sequence of tokens (pieces of the string), so that    *)
(* strings.HasPrefix is the prefix order on sequences and the fragment is  *)
(* what follows the token "#":                                             *)
(*   <<"http","s">>              http://s/                                 *)
(*   <<"http","s","a">>          http://s/a                                *)
(*   <<"http","s","a","#","f">>  http://s/a#f                              *)
(*   <<"mailto","m">>            mailto:m                                  *)
(***************************************************************************)
EXTENDS Integers, Sequences, FiniteSets, Bags, TLC

\* The largest worker count (-crawlers) the model runs with.
MaxWorkers == 2

----------------------------------------------------------------------------
(* Strings                                                                 *)

\* strings.HasPrefix(s, prefix)
HasPrefix(s, prefix) ==
    /\ Len(prefix) <= Len(s)
    /\ SubSeq(s, 1, Len(prefix)) = prefix

\* Position of the first "#" of a URL string, 0 when there is none.
HashPos(u) ==
    IF \E i \in 1..Len(u) : u[i] = "#"
    THEN CHOOSE i \in 1..Len(u) : u[i] = "#" /\ \A j \in 1..(i-1) : u[j] # "#"
    ELSE 0

\* url.URL.Fragment of the parsed string.
Fragment(u) ==
    IF HashPos(u) = 0 THEN <<>> ELSE SubSeq(u, HashPos(u) + 1, Len(u))

removeFragmentKeepsIt(link) == link

\* helpers.go removeFragment: parse, clear the fragment, print.
removeFragment(link) ==
    IF HashPos(link) = 0 THEN link ELSE SubSeq(link, 1, HashPos(link) - 1)

\* helpers.go splitFragment: <<link without fragment, fragment>>.
splitFragment(linkIn) == <<removeFragment(linkIn), Fragment(linkIn)>>

\* helpers.go sliceToSet
sliceToSet(ss) == {ss[i] : i \in 1..Len(ss)}

----------------------------------------------------------------------------
(* The URLs and documents of the sites the model crawls                    *)

Home  == <<"http", "s">>
PageA == <<"http", "s", "a">>
ExtE  == <<"http", "x", "e">>
Excl  == <<"http", "x", "excl", "p">>
Mail  == <<"mailto", "m">>

\* The URLs a server answers for (a request carries no fragment).
ReqURLs == {Home, PageA, ExtE}

\* crawler.excludePaths, the -exclude flag.
ExcludePaths == {<<"http", "x", "excl">>}

\* The attributes of an element that the extractor reads; NoAttr: not there.
NoAttr == <<"-">>
Node(tag, hrefv, idv, namev) ==
    [tag |-> tag, href |-> hrefv, id |-> idv, name |-> namev]
Anchor(hrefv) == Node("a", hrefv, NoAttr, NoAttr)

Div(idv)      == Node("div", NoAttr, idv, NoAttr)
Named(namev)  == Node("a", NoAttr, NoAttr, namev)

Frag(u, f) == u \o <<"#">> \o f

\* The documents the pages of the modelled sites can hold.
HomeDocs ==
    { << Anchor(Frag(PageA, <<"f">>)), Anchor(ExtE) >>,
      << Anchor(ExtE), Anchor(PageA), Anchor(<<>>) >>,
      << Anchor(<<"#", "f">>), Div(<<"f">>) >>,
      << Anchor(<<"#", "g">>) >>,
      << Anchor(<<>>), Anchor(Mail) >>,
      << Anchor(Excl), Anchor(Frag(PageA, <<"!", "j">>)) >>,
      << Anchor(PageA), Anchor(Frag(PageA, <<"f">>)), Anchor(Frag(PageA, <<"g">>)) >>,
      << Anchor(Frag(ExtE, <<"f">>)), Anchor(Frag(Home, <<"t">>)) >> }

PageADocs ==
    { << Div(<<"f">>) >>,
      << Anchor(Home), Named(<<"f">>) >>,
      << Anchor(PageA), Anchor(ExtE) >>,
      << Anchor(<<"#", "g">>), Div(<<"g">>), Anchor(Frag(Home, <<"t">>)) >> }

ExtEDocs ==
    { << Anchor(PageA), Div(<<"f">>) >> }

Html(doc)  == [kind |-> "html", doc |-> doc]
Fails(kind) == [kind |-> kind, doc |-> <<>>]

\* What a server can answer for each URL: a document, or a failure.
Answers(u) ==
    IF u = Home THEN {Html(d) : d \in HomeDocs} \cup {Fails("404"), Fails("nonhtml")}
    ELSE IF u = PageA
    THEN {Html(d) : d \in PageADocs}
             \cup {Fails("410"), Fails("transient")}
    ELSE {Html(d) : d \in ExtEDocs} \cup {Fails("404"), Fails("dns")}

NoRedirect == <<>>
None == [u \in ReqURLs |-> NoRedirect]

\* The 30X redirects of a site: at most one, not chained.
Redirects ==
    { None,
      [None EXCEPT ![PageA] = ExtE],
      [None EXCEPT ![ExtE] = PageA] }

\* The root URLs handed to the crawler (CLI keeps a fragment of its
\* argument), each with the redirects of the sites crawled from it.
Setups ==
    {<<Home, r>> : r \in Redirects} \cup {<<Frag(Home, <<"t">>), None>>}

VARIABLES
    root,        \* crawler.base
    workers,     \* crawler.workers
    page,        \* the site: what each URL answers
    redirect,    \* the site: where each URL redirects
    interrupted, \* SIGINT has been delivered
    q,           \* crawl's q, the queue: its fields q (FIFO) and m (set)
    crawled,     \* crawledPages
    openFetchs,  \* crawl's in-flight counter
    cancelled,   \* crawl's result flag
    pc,          \* the coordinator: "loop" | "done"
    wk,          \* the worker goroutines
    fifoLog,     \* history: every URL put in queue.q, in order
    feedLog,     \* history: every URL sent on workerqueue, in order
    storeLog,    \* history: every key written to crawledPages, in order
    offered,     \* history: <<page, link>> for every link passed to queue.add
    returned,    \* <<err>> once run has returned err, <<>> before
    report,      \* run's errs, the report it prints; empty before
    shouldArchive,     \* crawler.shouldArchive
    apc,               \* archiveAll: "idle" | "loop" | "returned"
    queue,             \* archiveAll's queue of good URLs
    inflightRequests,  \* archiveAll's in-flight counter
    errors,            \* archiveAll's errors: every result pushed, in order
    aw,                \* the archive worker goroutines
    asig,              \* SIGINT has been delivered during archiveAll
    submitted          \* history: every page sent to the archival endpoint

cfgvars == <<root, workers, page, redirect, shouldArchive>>
avars == <<apc, queue, inflightRequests, errors, aw, asig, submitted>>
vars == <<root, workers, page, redirect, interrupted, q, crawled,
          openFetchs, cancelled, pc, wk, fifoLog, feedLog, storeLog, offered,
          returned, report, shouldArchive, avars>>

----------------------------------------------------------------------------
(* parsehtml.go: the HTML extractor                                        *)

isAnchor(n) == n.tag = "a"

\* href: the value of the href attribute, "" when there is none.
href(n) == IF n.href = NoAttr THEN <<>> ELSE n.href

\* getIDs: the id attribute, and for an anchor the name attribute too.
getIDs(n) ==
    (IF n.id # NoAttr THEN <<n.id>> ELSE <<>>)
        \o (IF isAnchor(n) /\ n.name # NoAttr THEN <<n.name>> ELSE <<>>)

\* resolveRef: url.Parse(ref), then baseurl.ResolveReference. An empty
\* reference resolves to the base itself (fragment included), a reference
\* that is only a fragment to the base with that fragment, an absolute
\* reference to itself.
resolveRef(baseurl, ref) ==
    IF ref = <<>> THEN baseurl
    ELSE IF ref[1] = "#" THEN removeFragment(baseurl) \o ref
    ELSE ref

linkFromAHref(pageurl, n) ==
    IF ~isAnchor(n) THEN <<>> ELSE resolveRef(pageurl, href(n))

RECURSIVE visitAll(_, _, _)
\* visitAll with getIDsAndLinks' callback, over the nodes in document order.
visitAll(pageurl, doc, getLinks) ==
    IF doc = <<>> THEN [ids |-> <<>>, links |-> <<>>]
    ELSE LET n    == Head(doc)
             rest == visitAll(pageurl, Tail(doc), getLinks)
             link == linkFromAHref(pageurl, n)
         IN  [ids   |-> getIDs(n) \o rest.ids,
              links |-> IF getLinks /\ link # <<>>
                        THEN <<link>> \o rest.links ELSE rest.links]

getIDsAndLinks(pageurl, doc, getLinks) == visitAll(pageurl, doc, getLinks)

----------------------------------------------------------------------------
(* linkcheck.go: the fetcher                                               *)

shouldGetLinksAlways(url) == TRUE

\* crawler.shouldGetLinks
shouldGetLinks(url) == HasPrefix(url, root)

isExcludedNever(link) == FALSE

\* crawler.isExcluded
isExcluded(link) ==
    \/ ~HasPrefix(link, <<"http">>) /\ ~HasPrefix(link, <<"https">>)
    \/ \E prefixPath \in ExcludePaths : HasPrefix(link, prefixPath)

\* The URL of the response (res.Request.URL): the redirect's target, or the
\* requested URL when the server redirects nowhere.
ResponseURL(url) ==
    IF redirect[removeFragment(url)] = NoRedirect
    THEN url ELSE redirect[removeFragment(url)]

doFetchReportsAll(url) ==
    LET pageurl == ResponseURL(url)
        answer  == page[removeFragment(pageurl)]
    IN  IF answer.kind # "html"
        THEN [links |-> <<>>, ids |-> <<>>, err |-> answer.kind]
        ELSE LET got == getIDsAndLinks(pageurl, answer.doc, shouldGetLinks(pageurl))
             IN  [links |-> IF shouldGetLinks(pageurl)
                            THEN SelectSeq(got.links, LAMBDA l : ~isExcluded(l))
                            ELSE <<>>,
                  ids   |-> got.ids,
                  err   |-> "nil"]

\* crawler.doFetch: <<links, ids, err>> as a record.
doFetch(url) ==
    LET pageurl == ResponseURL(url)
        answer  == page[removeFragment(pageurl)]
    IN  IF answer.kind \in {"404", "410", "dns"}
        THEN [links |-> <<>>, ids |-> <<>>, err |-> answer.kind]
        ELSE IF answer.kind # "html"
        THEN [links |-> <<>>, ids |-> <<>>, err |-> "nil"]
        ELSE LET got == getIDsAndLinks(pageurl, answer.doc, shouldGetLinks(pageurl))
             IN  [links |-> IF shouldGetLinks(pageurl)
                            THEN SelectSeq(got.links, LAMBDA l : ~isExcluded(l))
                            ELSE <<>>,
                  ids   |-> got.ids,
                  err   |-> "nil"]

fetchKeyedByResponse(url) ==
    [url |-> ResponseURL(url), links |-> doFetch(url).links,
     ids |-> doFetch(url).ids, err |-> doFetch(url).err]

\* crawler.fetch: fetchResult{url, links, ids, err}
fetch(url) ==
    [url |-> url, links |-> doFetch(url).links,
     ids |-> doFetch(url).ids, err |-> doFetch(url).err]

\* crawler.fetch when the context is cancelled under the request: Fetch
\* returns the context's error, which doFetch ignores.
fetchAborted(url) == [url |-> url, links |-> <<>>, ids |-> <<>>, err |-> "nil"]

----------------------------------------------------------------------------
(* datastructures.go: the work queue and the page store                    *)

\* newQueue
newQueue(url) == [q |-> <<url>>, m |-> {url}]

queueEmpty(qu) == Len(qu.q) = 0

\* queue.head
queueHead(qu) == IF queueEmpty(qu) THEN <<>> ELSE qu.q[1]

queuePopLast(qu) ==
    IF ~queueEmpty(qu) THEN [qu EXCEPT !.q = SubSeq(qu.q, 1, Len(qu.q) - 1)] ELSE qu

\* queue.pophead
queuePophead(qu) == IF ~queueEmpty(qu) THEN [qu EXCEPT !.q = Tail(qu.q)] ELSE qu

queueAddNoDedup(qu, link) ==
    [q |-> Append(qu.q, removeFragment(link)), m |-> qu.m \cup {removeFragment(link)}]

\* queue.add
queueAdd(qu, link) ==
    LET l == removeFragment(link)
    IN  IF l \in qu.m THEN qu
        ELSE [q |-> Append(qu.q, l), m |-> qu.m \cup {l}]

\* newCrawledPages
newCrawledPages == [u \in {} |-> u]

crawledAddDropsErr(cp, fr) ==
    [u \in DOMAIN cp \cup {fr.url} |->
        IF u = fr.url
        THEN [ids |-> sliceToSet(fr.ids), links |-> sliceToSet(fr.links), err |-> "nil"]
        ELSE cp[u]]

\* crawledPages.add
crawledAdd(cp, fr) ==
    LET pi == IF fr.err # "nil"
              THEN [ids |-> {}, links |-> {}, err |-> fr.err]
              ELSE [ids |-> sliceToSet(fr.ids), links |-> sliceToSet(fr.links),
                    err |-> "nil"]
    IN  [u \in DOMAIN cp \cup {fr.url} |-> IF u = fr.url THEN pi ELSE cp[u]]

\* The orders in which a range over a map can visit its keys.
Orderings(S) ==
    {f \in [1..Cardinality(S) -> S] : \A i, j \in DOMAIN f : i # j => f[i] # f[j]}

RECURSIVE addEach(_, _)
addEach(qu, links) ==
    IF links = <<>> THEN qu ELSE addEach(queueAdd(qu, Head(links)), Tail(links))

\* crawledPages.addLinksToQueue: every queue it can leave behind, one for
\* each order of the range over pi.links.
addLinksToQueue(cp, url, qu) ==
    {addEach(qu, order) : order \in Orderings(cp[url].links)}

----------------------------------------------------------------------------
(* datastructures.go: the validator                                        *)

ErrMissingFragment == "missing fragments"

onSiteAll(cp, base) == DOMAIN cp

\* The pages whose links toURLErrors walks: `ignore pages off site`.
onSite(cp, base) == {pg \in DOMAIN cp : HasPrefix(pg, base)}

requestErrs404Only(cp) == {u \in DOMAIN cp : cp[u].err = "404"}

\* The first loop: the keys of requestErrs.
requestErrs(cp) == {u \in DOMAIN cp : cp[u].err # "nil"}

fragmentMissingIgnoresIds(cp, link) ==
    LET frag == splitFragment(link)[2]
    IN  frag # <<>> /\ ~HasPrefix(frag, <<"!">>)

fragmentMissingIgnoresBang(cp, link) ==
    LET l    == splitFragment(link)[1]
        frag == splitFragment(link)[2]
    IN  /\ frag # <<>>
        /\ ~(l \in DOMAIN cp /\ frag \in cp[l].ids)

\* The test the second loop makes on one link of a page: the fragment is
\* neither empty nor a #! one, and the target is not a stored page holding it.
fragmentMissing(cp, link) ==
    LET l    == splitFragment(link)[1]
        frag == splitFragment(link)[2]
    IN  /\ frag # <<>>
        /\ ~HasPrefix(frag, <<"!">>)
        /\ ~(l \in DOMAIN cp /\ frag \in cp[l].ids)

requestRefsNone(cp, base, u) == [pg \in {} |-> 0]

\* pe.refs of requestErrs[u] after the second loop, as a bag: one append of
\* page for each of its links that splits to u.
requestRefs(cp, base, u) ==
    LET n(pg) == Cardinality({l \in cp[pg].links : splitFragment(l)[1] = u})
    IN  [pg \in {x \in onSite(cp, base) : n(x) > 0} |-> n(pg)]

\* The links of a page that the second loop records as a missing fragment of u.
missingOn(cp, pg, u) ==
    {l \in cp[pg].links : splitFragment(l)[1] = u /\ fragmentMissing(cp, l)}

fragErrsKeyedByLink(cp, base) ==
    UNION {{x \in cp[pg].links : fragmentMissing(cp, x)} : pg \in onSite(cp, base)}

\* The keys of fragErrs.
fragErrs(cp, base) ==
    {splitFragment(l)[1] : l \in
        UNION {{x \in cp[pg].links : fragmentMissing(cp, x)} : pg \in onSite(cp, base)}}

\* pe.refs of fragErrs[u], as a bag.
fragRefs(cp, base, u) ==
    LET n(pg) == Cardinality(missingOn(cp, pg, u))
    IN  [pg \in {x \in onSite(cp, base) : n(x) > 0} |-> n(pg)]

\* pe.missingFragments of fragErrs[u].
missingFragments(cp, base, u) ==
    {splitFragment(l)[2] : l \in UNION {missingOn(cp, pg, u) : pg \in onSite(cp, base)}}

toURLErrorsRequestWins(cp, base) ==
    [u \in requestErrs(cp) \cup fragErrs(cp, base) |->
        IF u \in requestErrs(cp)
        THEN [err |-> cp[u].err,
              refs |-> requestRefs(cp, base, u),
              missingFragments |-> {}]
        ELSE [err |-> ErrMissingFragment,
              refs |-> fragRefs(cp, base, u),
              missingFragments |-> missingFragments(cp, base, u)]]

\* crawledPages.toURLErrors: the merged map. refs is a bag of pages, the
\* order of the appends being that of the range over the maps.
toURLErrors(cp, base) ==
    [u \in requestErrs(cp) \cup fragErrs(cp, base) |->
        IF u \in fragErrs(cp, base)
        THEN [err |-> ErrMissingFragment,
              refs |-> fragRefs(cp, base, u),
              missingFragments |-> missingFragments(cp, base, u)]
        ELSE [err |-> cp[u].err,
              refs |-> requestRefs(cp, base, u),
              missingFragments |-> {}]]

----------------------------------------------------------------------------
(* linkcheck.go: crawler.crawl, the coordinator and its workers            *)

Workers == 1..workers

NoResult == [url |-> <<>>, links |-> <<>>, ids |-> <<>>, err |-> "nil"]

\* A worker goroutine: "recv" at `range workerqueue`, "fetch" inside c.fetch,
\* "send" at `fetchResults <- ...`, "exit" after the range has ended.
Idle == [st |-> "recv", url |-> <<>>, res |-> NoResult]

\* ctx.Done() is closed: by SIGINT, or by the deferred cancel() of crawl.
ctxDone == interrupted \/ pc = "done"

\* The state when run calls crawl, archiveAll not yet called.
Start ==
    /\ \E s \in Setups : root = s[1] /\ redirect = s[2]
    /\ workers \in 1..MaxWorkers
    /\ page \in [ReqURLs -> UNION {Answers(u) : u \in ReqURLs}]
    /\ \A u \in ReqURLs : page[u] \in Answers(u)
    /\ interrupted = FALSE
    /\ q = newQueue(root)
    /\ crawled = newCrawledPages
    /\ openFetchs = 0
    /\ cancelled = FALSE
    /\ pc = "loop"
    /\ wk = [w \in Workers |-> Idle]
    /\ fifoLog = <<root>>
    /\ feedLog = <<>>
    /\ storeLog = <<>>
    /\ offered = {}
    /\ returned = <<>>
    /\ report = <<>>
    /\ apc = "idle"
    /\ queue = <<>>
    /\ inflightRequests = 0
    /\ errors = <<>>
    /\ aw = [w \in Workers |-> [st |-> "recv", page |-> <<>>, err |-> "nil"]]
    /\ asig = FALSE
    /\ submitted = <<>>

\* The -should-archive flag is off unless given.
Init == Start /\ shouldArchive = FALSE

AtReceiveOrBusy(w) == wk[w].st \in {"recv", "fetch", "send"}

\* workerqueue is unbuffered: a send completes with a worker at its receive.
AtReceive(w) == wk[w].st = "recv"

AtSendAny(w) == TRUE

AtSendQueueDrained(w) == wk[w].st = "send" /\ queueEmpty(q)

\* fetchResults is unbuffered: a receive completes with a worker at its send.
AtSend(w) == wk[w].st = "send"

LoopCondIgnoresCancel == openFetchs > 0 \/ ~queueEmpty(q)

LoopCondCountOnly == openFetchs > 0 /\ ~cancelled

LoopCondOffByOne == (openFetchs >= 0 \/ ~queueEmpty(q)) /\ ~cancelled

LoopCondQueueOnly == ~queueEmpty(q) /\ ~cancelled

\* for (openFetchs > 0 || !q.empty()) && !cancelled
LoopCond == (openFetchs > 0 \/ ~queueEmpty(q)) /\ ~cancelled

loopqueueNeverNil(qu) == TRUE

\* loopqueue is workerqueue, and nil when the queue is empty: whether the
\* send case of the select can be taken.
loopqueue(qu) == ~queueEmpty(qu)

\* case loopqueue <- addURL: worker w is at its receive and takes the head.
Send(w) ==
    /\ pc = "loop" /\ LoopCond
    /\ loopqueue(q)
    /\ AtReceive(w)
    /\ wk' = [wk EXCEPT ![w] = [st |-> "fetch", url |-> queueHead(q), res |-> NoResult]]
    /\ openFetchs' = openFetchs + 1
    /\ q' = queuePophead(q)
    /\ feedLog' = Append(feedLog, queueHead(q))
    /\ UNCHANGED <<cfgvars, interrupted, crawled, cancelled, pc, fifoLog, storeLog, offered, returned, report, avars>>

IngestAlways(url) == TRUE

\* if strings.HasPrefix(result.url, c.base)
IngestLinks(url) == HasPrefix(url, root)

\* case result := <-fetchResults: worker w is at its send.
Receive(w) ==
    /\ pc = "loop" /\ LoopCond
    /\ AtSend(w)
    /\ LET result == wk[w].res
           cp     == crawledAdd(crawled, result)
       IN  /\ openFetchs' = openFetchs - 1
           /\ crawled' = cp
           /\ storeLog' = Append(storeLog, result.url)
           /\ IF IngestLinks(result.url)
              THEN /\ q' \in addLinksToQueue(cp, result.url, q)
                   /\ offered' = offered \cup
                          {<<result.url, l>> : l \in cp[result.url].links}
              ELSE /\ q' = q
                   /\ offered' = offered
           /\ fifoLog' = fifoLog \o SubSeq(q'.q, Len(q.q) + 1, Len(q'.q))
    /\ wk' = [wk EXCEPT ![w] = Idle]
    /\ UNCHANGED <<cfgvars, interrupted, cancelled, pc, feedLog, returned, report, avars>>

\* case <-ctx.Done()
Cancel ==
    /\ pc = "loop" /\ LoopCond
    /\ ctxDone
    /\ cancelled' = TRUE
    /\ UNCHANGED <<cfgvars, interrupted, q, crawled, openFetchs, pc, wk,
                   fifoLog, feedLog, storeLog, offered, returned, report, avars>>

\* The errors of linkcheck.go, each with the exit code exitcode.Set gives it.
ErrCancelled == [msg |-> "scraping canceled by SIGINT", code |-> 3]
ErrBadLinks  == [msg |-> "found bad links", code |-> 4]
Nil          == [msg |-> "nil", code |-> 0]

runBadLinksFirst(pages, wasCancelled) ==
    IF DOMAIN toURLErrors(pages, root) # {} THEN ErrBadLinks
    ELSE IF wasCancelled THEN ErrCancelled
    ELSE Nil

\* crawler.run, after crawl has returned pages and cancelled: the error it
\* returns (errs is printed and reported on the way).
run(pages, wasCancelled) ==
    LET errs == toURLErrors(pages, root)
    IN  IF wasCancelled THEN ErrCancelled
        ELSE IF Cardinality(DOMAIN errs) > 0 THEN ErrBadLinks
        ELSE Nil

\* The loop ends: close(workerqueue), crawl returns crawled and cancelled
\* to run, which prints the report and, unless it is to archive first,
\* returns its error.
Exit ==
    /\ pc = "loop" /\ ~LoopCond
    /\ pc' = "done"
    /\ report' = toURLErrors(crawled, root)
    /\ returned' = IF shouldArchive THEN <<>> ELSE <<run(crawled, cancelled)>>
    /\ UNCHANGED <<cfgvars, interrupted, q, crawled, openFetchs, cancelled, wk,
                   fifoLog, feedLog, storeLog, offered, avars>>

\* The worker's c.fetch(ctx, url) returns.
Fetch(w) ==
    /\ wk[w].st = "fetch"
    /\ \E res \in {fetch(wk[w].url)} \cup
                  (IF ctxDone THEN {fetchAborted(wk[w].url)} ELSE {}) :
           wk' = [wk EXCEPT ![w] = [st |-> "send", url |-> wk[w].url, res |-> res]]
    /\ UNCHANGED <<cfgvars, interrupted, q, crawled, openFetchs, cancelled, pc,
                   fifoLog, feedLog, storeLog, offered, returned, report, avars>>

\* `range workerqueue` ends for a worker at its receive once the channel is closed.
WorkerExit(w) ==
    /\ pc = "done"
    /\ wk[w].st = "recv"
    /\ wk' = [wk EXCEPT ![w] = [st |-> "exit", url |-> <<>>, res |-> NoResult]]
    /\ UNCHANGED <<cfgvars, interrupted, q, crawled, openFetchs, cancelled, pc,
                   fifoLog, feedLog, storeLog, offered, returned, report, avars>>

\* SIGINT arrives while crawl runs (signal.NotifyContext).
Interrupt ==
    /\ pc = "loop"
    /\ ~interrupted
    /\ interrupted' = TRUE
    /\ UNCHANGED <<cfgvars, q, crawled, openFetchs, cancelled, pc, wk,
                   fifoLog, feedLog, storeLog, offered, returned, report, avars>>

Next ==
    \/ \E w \in Workers : Send(w)
    \/ \E w \in Workers : Receive(w)
    \/ Cancel
    \/ Exit
    \/ \E w \in Workers : Fetch(w)
    \/ \E w \in Workers : WorkerExit(w)
    \/ Interrupt

Spec == Init /\ [][Next]_vars

\* One iteration of the coordinator's loop, or its end.
Coordinator ==
    \/ \E w \in Workers : Send(w)
    \/ \E w \in Workers : Receive(w)
    \/ Cancel
    \/ Exit

\* The sites of the termination check: the root http://s/, no redirect, one
\* external page; every document of the root and of the page under it, so
\* that pages link to themselves and to each other.
CycleInit ==
    /\ Init
    /\ root = Home
    /\ redirect = None
    /\ page[ExtE] = Fails("404")

\* The Go scheduler runs every goroutine that can run: the coordinator takes
\* a ready case of its select, a fetch returns (the client has a timeout).
FairSpec ==
    /\ CycleInit /\ [][Next]_vars
    /\ WF_vars(Coordinator)
    /\ \A i \in 1..MaxWorkers : WF_vars(i \in Workers /\ Fetch(i))

----------------------------------------------------------------------------
(* archive.go: crawler.archiveAll, called by run when -should-archive is   *)
(* given, after crawl has returned and the report is printed               *)

\* What c.archive can return for a request that was made.
ArchiveErrs == {"nil", "failed"}

\* `queue good URLs`: the keys of pages whose err is nil.
goodURLs(pages) == {u \in DOMAIN pages : pages[u].err = "nil"}

\* errors.Merge(): nil when no worker returned an error.
Merge(errs) ==
    IF \E i \in 1..Len(errs) : errs[i] # "nil" THEN "errors" ELSE "nil"

runArchiveErrFails(pages, wasCancelled, archiveErr) ==
    IF archiveErr # "nil" THEN [msg |-> archiveErr, code |-> 5]
    ELSE run(pages, wasCancelled)

\* crawler.run once archiveAll has returned archiveErr: the error is logged
\* as a warning, and run returns what it returns without archiving.
runArchived(pages, wasCancelled, archiveErr) == run(pages, wasCancelled)

\* archiveAll starts: the queue is filled in the order of the range over the
\* map, the channels are made and the workers started.
ArchiveStart ==
    /\ pc = "done" /\ shouldArchive
    /\ apc = "idle"
    /\ apc' = "loop"
    /\ queue' \in Orderings(goodURLs(crawled))
    /\ UNCHANGED <<cfgvars, interrupted, q, crawled, openFetchs, cancelled, pc, wk,
                   fifoLog, feedLog, storeLog, offered, returned, report,
                   inflightRequests, errors, aw, asig, submitted>>

ArchiveLoopCondQueueOnly == Len(queue) > 0

\* for len(queue) > 0 || inflightRequests > 0
ArchiveLoopCond == Len(queue) > 0 \/ inflightRequests > 0

\* `case pagesLoopCh <- page`, taken with worker w at its receive.
ArchiveSend(w) ==
    /\ apc = "loop" /\ ArchiveLoopCond
    /\ Len(queue) > 0
    /\ aw[w].st = "recv"
    /\ aw' = [aw EXCEPT ![w] = [st |-> "work", page |-> Head(queue), err |-> "nil"]]
    /\ queue' = Tail(queue)
    /\ inflightRequests' = inflightRequests + 1
    /\ UNCHANGED <<cfgvars, interrupted, q, crawled, openFetchs, cancelled, pc, wk,
                   fifoLog, feedLog, storeLog, offered, returned, report,
                   apc, errors, asig, submitted>>

\* The worker's l.Wait(ctx) and c.archive(ctx, page): Wait returns the
\* context's error once SIGINT has come and no request is made; otherwise
\* the page goes to the endpoint, and the request succeeds or fails.
Archive(w) ==
    /\ aw[w].st = "work"
    /\ IF asig
       THEN /\ aw' = [aw EXCEPT ![w] = [@ EXCEPT !.st = "send", !.err = "canceled"]]
            /\ submitted' = submitted
       ELSE /\ \E err \in ArchiveErrs :
                   aw' = [aw EXCEPT ![w] = [@ EXCEPT !.st = "send", !.err = err]]
            /\ submitted' = Append(submitted, aw[w].page)
    /\ UNCHANGED <<cfgvars, interrupted, q, crawled, openFetchs, cancelled, pc, wk,
                   fifoLog, feedLog, storeLog, offered, returned, report,
                   apc, queue, inflightRequests, errors, asig>>

\* `case err := <-errCh`, taken with worker w at its send.
ArchiveReceive(w) ==
    /\ apc = "loop" /\ ArchiveLoopCond
    /\ aw[w].st = "send"
    /\ inflightRequests' = inflightRequests - 1
    /\ errors' = Append(errors, aw[w].err)
    /\ aw' = [aw EXCEPT ![w] = [st |-> "recv", page |-> <<>>, err |-> "nil"]]
    /\ UNCHANGED <<cfgvars, interrupted, q, crawled, openFetchs, cancelled, pc, wk,
                   fifoLog, feedLog, storeLog, offered, returned, report,
                   apc, queue, asig, submitted>>

\* The loop of archiveAll ends and it returns; the deferred calls cancel the
\* context and close errCh and pagesCh; run returns its error.
ArchiveReturn ==
    /\ apc = "loop" /\ ~ArchiveLoopCond
    /\ apc' = "returned"
    /\ returned' = <<runArchived(crawled, cancelled, Merge(errors))>>
    /\ UNCHANGED <<cfgvars, interrupted, q, crawled, openFetchs, cancelled, pc, wk,
                   fifoLog, feedLog, storeLog, offered, report,
                   queue, inflightRequests, errors, aw, asig, submitted>>

\* `range pagesCh` ends for a worker at its receive once pagesCh is closed.
ArchiveWorkerExit(w) ==
    /\ apc = "returned"
    /\ aw[w].st = "recv"
    /\ aw' = [aw EXCEPT ![w] = [st |-> "exit", page |-> <<>>, err |-> "nil"]]
    /\ UNCHANGED <<cfgvars, interrupted, q, crawled, openFetchs, cancelled, pc, wk,
                   fifoLog, feedLog, storeLog, offered, returned, report,
                   apc, queue, inflightRequests, errors, asig, submitted>>

\* SIGINT arrives while archiveAll runs (its own signal.NotifyContext).
ArchiveInterrupt ==
    /\ apc = "loop"
    /\ ~asig
    /\ asig' = TRUE
    /\ UNCHANGED <<cfgvars, interrupted, q, crawled, openFetchs, cancelled, pc, wk,
                   fifoLog, feedLog, storeLog, offered, returned, report,
                   apc, queue, inflightRequests, errors, aw, submitted>>

\* The sites of the archive runs: the root http://s/ without redirects,
\* linking to a page under it and to an external one, or answering 404.
ArchiveInit ==
    /\ Start
    /\ shouldArchive = TRUE
    /\ root = Home
    /\ redirect = None
    /\ page[Home] \in {Html(<< Anchor(ExtE), Anchor(PageA), Anchor(<<>>) >>), Fails("404")}
    /\ page[PageA] \in {Html(<< Div(<<"f">>) >>), Fails("410"), Fails("transient")}
    /\ page[ExtE] \in {Html(<< Anchor(PageA), Div(<<"f">>) >>), Fails("dns")}

\* In the archive runs SIGINT comes, if at all, during archiveAll: the
\* crawl before it runs to its end.
ArchiveNext ==
    \/ \E w \in Workers : Send(w)
    \/ \E w \in Workers : Receive(w)
    \/ Exit
    \/ \E w \in Workers : Fetch(w)
    \/ \E w \in Workers : WorkerExit(w)
    \/ ArchiveStart
    \/ \E w \in Workers : ArchiveSend(w)
    \/ \E w \in Workers : Archive(w)
    \/ \E w \in Workers : ArchiveReceive(w)
    \/ ArchiveReturn
    \/ \E w \in Workers : ArchiveWorkerExit(w)
    \/ ArchiveInterrupt

\* run with -should-archive: crawl, then archiveAll.
ArchiveSpec == ArchiveInit /\ [][ArchiveNext]_vars

----------------------------------------------------------------------------
(* Properties                                                              *)

Range(s) == {s[i] : i \in 1..Len(s)}
NoDuplicates(s) == \A i, j \in 1..Len(s) : i # j => s[i] # s[j]
Busy == {w \in Workers : wk[w].st \in {"fetch", "send"}}
Drained == pc = "done" /\ ~cancelled

\* C1: when the loop of crawl has exited with cancelled false, the queue is
\* empty, the in-flight counter is zero and no worker holds a URL or a
\* result that has not been ingested.
C1_ExitOnlyWhenDrained ==
    Drained => /\ queueEmpty(q)
               /\ openFetchs = 0
               /\ Busy = {}

\* C1, its case: an un-cancelled exit after a crawl of three URLs.
C1_Witness == Drained /\ Len(storeLog) >= 3

RECURSIVE LinksFrom(_)
\* The least set that holds S and the fragment-stripped links of its stored
\* pages under the root.
LinksFrom(S) ==
    LET step == S \cup {removeFragment(l) : l \in
                    UNION {crawled[k].links :
                           k \in {x \in S \cap DOMAIN crawled : HasPrefix(x, root)}}}
    IN  IF step = S THEN S ELSE LinksFrom(step)

\* C2: when crawl returns un-cancelled, the keys of the page store are the
\* root and what the links of the stored pages under the root reach, and
\* nothing else.
C2_StoreIsLinkClosure == Drained => DOMAIN crawled = LinksFrom({root})

\* C2, its case: an un-cancelled crawl that stored the root, a page under
\* it and an external page.
C2_Witness ==
    /\ Drained
    /\ \E k \in DOMAIN crawled : k # root /\ HasPrefix(k, root)
    /\ \E k \in DOMAIN crawled : ~HasPrefix(k, root)

\* C3: when no interrupt arrives, the loop of crawl ends un-cancelled, also
\* on a site whose pages link to themselves or in a cycle.
C3_CrawlTerminates == <>(interrupted \/ Drained)

\* C3, its case: the crawl of a cycle has ended: a stored page under the
\* root links to the root, which links to it.
C3_Witness ==
    /\ Drained /\ ~interrupted
    /\ \E k \in DOMAIN crawled :
          /\ k # root /\ HasPrefix(k, root)
          /\ root \in crawled[k].links
          /\ k \in crawled[root].links

\* C4: no URL is put in the FIFO twice, and the FIFO has held exactly the
\* URLs of the membership set.
C4_EnqueuedAtMostOnce == NoDuplicates(fifoLog) /\ Range(fifoLog) = q.m

\* C4, its case: a page under the root was ingested with a link to a URL
\* that had been stored before it.
C4_Witness ==
    \E i, j \in 1..Len(storeLog) :
        /\ i < j
        /\ HasPrefix(storeLog[j], root)
        /\ \E l \in crawled[storeLog[j]].links : removeFragment(l) = storeLog[i]

\* C5: no URL is sent on the feed channel twice, no key of the page store
\* is written twice, and an entry of the page store is never changed or
\* removed.
C5_WrittenOnce ==
    /\ [](NoDuplicates(feedLog) /\ NoDuplicates(storeLog))
    /\ [][\A k \in DOMAIN crawled :
             k \in DOMAIN crawled' /\ crawled'[k] = crawled[k]]_vars

\* C5, its case: two URLs that redirect to the same page are both stored.
C5_Witness ==
    \E j, k \in DOMAIN crawled : j # k /\ ResponseURL(j) = ResponseURL(k)

RECURSIVE SiteClosure(_)
\* The URLs an uninterrupted crawl of the site requests.
SiteClosure(S) ==
    LET step == S \cup {removeFragment(l) : l \in
                    UNION {sliceToSet(doFetch(k).links) :
                           k \in {x \in S : HasPrefix(x, root)}}}
    IN  IF step = S THEN S ELSE SiteClosure(step)

\* The page store of the site, as a function of the site and the root alone.
SiteStore ==
    [u \in SiteClosure({root}) |->
        [ids   |-> sliceToSet(doFetch(u).ids),
         links |-> sliceToSet(doFetch(u).links),
         err   |-> doFetch(u).err]]

\* C6: without an interrupt, the page store and the report at the end of
\* the crawl are those of the site, whatever the worker count and the
\* interleaving.
C6_Deterministic ==
    (pc = "done" /\ ~interrupted) =>
        /\ crawled = SiteStore
        /\ toURLErrors(crawled, root) = toURLErrors(SiteStore, root)

\* C6, its case: a crawl with two workers that fetched at the same time
\* has ended with a report that is not empty.
C6_Witness ==
    /\ pc = "done" /\ ~interrupted
    /\ workers >= 2
    /\ Len(feedLog) >= 2 /\ Len(storeLog) >= 2
    /\ feedLog[2] # storeLog[2]
    /\ DOMAIN toURLErrors(crawled, root) # {}

C9_QueueIsFragmentFree ==
    /\ \A u \in q.m \cup Range(q.q) : HashPos(u) = 0
    /\ \A u, v \in Range(fifoLog) : removeFragment(u) = removeFragment(v) => u = v

\* C10: the in-flight counter is the number of workers that hold a URL or
\* a result, the URLs sent and not yet ingested, and never above the
\* worker count.
C10_BoundedParallelism ==
    /\ openFetchs = Cardinality(Busy)
    /\ openFetchs = Len(feedLog) - Len(storeLog)
    /\ openFetchs <= workers

\* C10, its case: every worker is busy while the queue holds more work.
C10_Witness ==
    /\ workers >= 2
    /\ Cardinality(Busy) = workers
    /\ ~queueEmpty(q)

\* C11, as claimed: once the loop has ended and the feed channel is closed,
\* no worker is left at its send on the result channel, where nothing
\* receives any more, so that every worker comes to exit.
C11_NoWorkerLeftSending ==
    pc = "done" => \A w \in Workers : wk[w].st # "send"

\* C12, as claimed: once SIGINT has closed ctx.Done no URL is sent on the
\* feed channel and no result is stored.
C12_NoIntakeAfterSignal ==
    [][interrupted => (feedLog' = feedLog /\ storeLog' = storeLog)]_vars

\* C12, amended: once the coordinator has taken the ctx.Done case and set
\* cancelled, no URL is sent, no result is stored and the queue is left
\* as it is.
C12_NoIntakeAfterCancelled ==
    [][cancelled => /\ feedLog' = feedLog /\ storeLog' = storeLog
                    /\ crawled' = crawled /\ q' = q
                    /\ openFetchs' = openFetchs]_vars

\* C12, its case: cancelled is set while the queue holds a URL, a worker
\* waits for one and another worker waits to hand over its result.
C12_Witness ==
    /\ cancelled
    /\ ~queueEmpty(q)
    /\ \E w \in Workers : wk[w].st = "recv"
    /\ \E w \in Workers : wk[w].st = "send"

\* C13, as claimed: when SIGINT arrived before the loop ended, crawl
\* returns cancelled and run returns ErrCancelled.
C13_SignalMeansCancelled ==
    (pc = "done" /\ interrupted) => (cancelled /\ returned = <<ErrCancelled>>)

\* C13, amended: crawl returns cancelled exactly when it leaves work undone
\* (a URL in the queue or a fetch in flight), which takes a SIGINT; after
\* a SIGINT that the loop did not take before it drained, crawl returns
\* un-cancelled; run returns ErrCancelled exactly when crawl returned
\* cancelled.
C13_CancelledIffWorkLeft ==
    pc = "done" =>
        /\ cancelled <=> (openFetchs > 0 \/ ~queueEmpty(q))
        /\ cancelled => interrupted
        /\ cancelled <=> returned = <<ErrCancelled>>

\* C13, its case: SIGINT arrived and crawl returned cancelled, with results
\* ingested and work left.
C13_Witness ==
    /\ pc = "done" /\ interrupted /\ cancelled
    /\ returned = <<ErrCancelled>>
    /\ Len(storeLog) >= 1

\* C14: run returns ErrCancelled (exit code 3) whenever crawl was
\* cancelled, ErrBadLinks (exit code 4) exactly when it was not and the
\* report has an entry, and nil exactly when it was not and the report is
\* empty.
C14_OutcomePriority ==
    pc = "done" =>
        /\ Len(returned) = 1
        /\ cancelled => (returned[1] = ErrCancelled /\ returned[1].code = 3)
        /\ (~cancelled /\ DOMAIN report # {})
              <=> (returned[1] = ErrBadLinks /\ returned[1].code = 4)
        /\ (~cancelled /\ DOMAIN report = {}) <=> returned[1] = Nil

\* C14, its case: a cancelled crawl whose report has an entry.
C14_Witness ==
    /\ pc = "done" /\ cancelled
    /\ DOMAIN report # {}
    /\ returned = <<ErrCancelled>>

\* The fetch errors doFetch reports: 404, 410 and a DNS failure.
Reportable == {"404", "410", "dns"}

\* C15: every stored URL whose fetch failed with a 404, a 410 or a DNS
\* failure has an entry in the report of the crawl, and so has every stored
\* URL whose server answers that way when no SIGINT cut the fetch short.
C15_FetchErrorsReported ==
    pc = "done" =>
        \A u \in DOMAIN crawled :
            /\ crawled[u].err \in Reportable => u \in DOMAIN report
            /\ (~interrupted /\ doFetch(u).err \in Reportable)
                   => (crawled[u].err = doFetch(u).err /\ u \in DOMAIN report)

\* C15, its case: the report of a crawl holds an external URL that answered
\* 404 and an on-site URL that answered 410, both ingested.
C15_Witness ==
    /\ pc = "done"
    /\ ExtE \in DOMAIN crawled /\ crawled[ExtE].err = "404"
    /\ PageA \in DOMAIN crawled /\ crawled[PageA].err = "410"
    /\ {ExtE, PageA} \subseteq DOMAIN report

\* C16: in the report of a crawl, completed or cancelled, every entry of
\* kind MissingFragment has a non-empty missingFragments, and every fragment
\* in it was looked up on a stored target page whose ids do not hold it.
C16_MissingFragmentsWereChecked ==
    pc = "done" =>
        \A u \in DOMAIN report :
            report[u].err = ErrMissingFragment =>
                /\ report[u].missingFragments # {}
                /\ \A f \in report[u].missingFragments :
                       u \in DOMAIN crawled /\ f \notin crawled[u].ids

\* The links of the stored pages under the root that carry a fragment the
\* validator looks up: not empty, not a #! one.
FragmentLinks ==
    {<<pg, l>> \in UNION {{<<x, y>> : y \in crawled[x].links} : x \in DOMAIN crawled} :
        /\ HasPrefix(pg, root)
        /\ Fragment(l) # <<>>
        /\ ~HasPrefix(Fragment(l), <<"!">>)}

\* C17: for every link base#frag of a stored page under the root, frag not
\* empty and not a #! one: when base is stored with frag among its ids, the
\* report records no missing frag on base; otherwise the report's entry for
\* base is of kind MissingFragment, holds frag and names the page in refs.
C17_FragmentLookup ==
    pc = "done" =>
        LET rep == report
        IN  \A pl \in FragmentLinks :
                LET pg   == pl[1]
                    base == removeFragment(pl[2])
                    frag == Fragment(pl[2])
                IN  IF base \in DOMAIN crawled /\ frag \in crawled[base].ids
                    THEN base \in DOMAIN rep => frag \notin rep[base].missingFragments
                    ELSE /\ base \in DOMAIN rep
                         /\ rep[base].err = ErrMissingFragment
                         /\ frag \in rep[base].missingFragments
                         /\ pg \in DOMAIN rep[base].refs

\* C17, its case: a completed crawl whose root links to a#f and a#g, page a
\* holding f and not g: the report has g and not f on a, the root in refs.
C17_Witness ==
    /\ pc = "done" /\ ~cancelled
    /\ <<Home, Frag(PageA, <<"f">>)>> \in FragmentLinks
    /\ <<Home, Frag(PageA, <<"g">>)>> \in FragmentLinks
    /\ PageA \in DOMAIN crawled /\ crawled[PageA].ids = {<<"f">>}
    /\ PageA \in DOMAIN report
    /\ report[PageA].missingFragments = {<<"g">>}
    /\ Home \in DOMAIN report[PageA].refs

\* The stored URLs whose fetch gave an error and that a stored page under
\* the root links to with a fragment the validator looks up.
FailedAndFragmentLinked ==
    {u \in DOMAIN crawled :
        /\ crawled[u].err # "nil"
        /\ \E pl \in FragmentLinks : removeFragment(pl[2]) = u}

\* C18: a URL that both gave a fetch error and is linked to with a missing
\* fragment has one entry in the report, of kind MissingFragment, holding
\* the fragments; a URL that only gave a fetch error keeps that error.
C18_FragmentErrorOverrides ==
    pc = "done" =>
        LET rep == report
        IN  \A u \in DOMAIN crawled :
                crawled[u].err # "nil" =>
                    /\ u \in DOMAIN rep
                    /\ IF u \in FailedAndFragmentLinked
                       THEN /\ rep[u].err = ErrMissingFragment
                            /\ rep[u].missingFragments =
                                   {Fragment(pl[2]) : pl \in
                                       {x \in FragmentLinks : removeFragment(x[2]) = u}}
                       ELSE /\ rep[u].err = crawled[u].err
                            /\ rep[u].missingFragments = {}

\* C18, its case: page a answered 410 and the root links to a#f; the report
\* has a as a MissingFragment entry.
C18_Witness ==
    /\ pc = "done"
    /\ PageA \in FailedAndFragmentLinked
    /\ crawled[PageA].err = "410"
    /\ report[PageA].err = ErrMissingFragment

\* The stored pages under the root holding a link that, its fragment
\* stripped, is u.
Referrers(u) ==
    {pg \in DOMAIN crawled :
        /\ HasPrefix(pg, root)
        /\ \E l \in crawled[pg].links : removeFragment(l) = u}

\* The stored pages under the root holding a link to u with a looked-up
\* fragment that u's record does not hold.
MissingReferrers(u) ==
    {pl[1] : pl \in
        {x \in FragmentLinks :
            /\ removeFragment(x[2]) = u
            /\ ~(u \in DOMAIN crawled /\ Fragment(x[2]) \in crawled[u].ids)}}

\* C19 as stated: whatever the kind of an entry of the report, every
\* stored page under the root that links to the entry's URL is in its refs.
C19_AllReferrersListed ==
    pc = "done" =>
        LET rep == report
        IN  \A u \in DOMAIN rep : Referrers(u) \subseteq DOMAIN rep[u].refs

\* C19, amended: the refs of a fetch-error entry are the stored pages under
\* the root that link to its URL; the refs of a MissingFragment entry are
\* only those of them that link to it with a missing fragment.
C19_RefsByKind ==
    pc = "done" =>
        LET rep == report
        IN  \A u \in DOMAIN rep :
                /\ DOMAIN rep[u].refs \subseteq Referrers(u)
                /\ IF rep[u].err = ErrMissingFragment
                   THEN DOMAIN rep[u].refs = MissingReferrers(u)
                   ELSE DOMAIN rep[u].refs = Referrers(u)

\* C19, its case: the report of a completed crawl has a 404 entry naming
\* both pages that link to it, and a MissingFragment entry for page a that
\* leaves out a referrer of a (a itself, linking without a fragment).
C19_Witness ==
    /\ pc = "done" /\ ~cancelled
    /\ {ExtE, PageA} \subseteq DOMAIN report
    /\ report[ExtE].err = "404"
    /\ DOMAIN report[ExtE].refs = {Home, PageA}
    /\ report[PageA].err = ErrMissingFragment
    /\ Referrers(PageA) = {Home, PageA}
    /\ DOMAIN report[PageA].refs = {Home}

\* C20: in every entry of the report, each page in refs has the root as a
\* prefix and is a key of the page store.
C20_RefsAreOnSitePages ==
    pc = "done" =>
        LET rep == report
        IN  \A u \in DOMAIN rep :
                \A pg \in DOMAIN rep[u].refs :
                    HasPrefix(pg, root) /\ pg \in DOMAIN crawled

\* C20, its case: an external URL is stored with links of its own (it
\* redirects into the site), one of them to a URL the report has an entry
\* for; that entry names a referrer, and not the external page.
C20_Witness ==
    /\ pc = "done"
    /\ ExtE \in DOMAIN crawled /\ ~HasPrefix(ExtE, root)
    /\ \E u \in DOMAIN report :
           /\ \E l \in crawled[ExtE].links : removeFragment(l) = u
           /\ DOMAIN report[u].refs # {}
           /\ ExtE \notin DOMAIN report[u].refs

\* The URLs referenced anywhere: the links of the stored pages, their
\* fragments stripped.
Referenced == {removeFragment(l) : l \in UNION {crawled[pg].links : pg \in DOMAIN crawled}}

\* C21: every key of the report is a key of the page store or the
\* fragment-stripped form of a link of a stored page.
C21_ReportKeysKnown ==
    pc = "done" => DOMAIN report \subseteq (DOMAIN crawled \cup Referenced)

\* C21, its case: the report of a crawl has a key that was fetched and
\* answered an error, and a key that is a link and was never fetched.
C21_Witness ==
    /\ pc = "done"
    /\ \E u \in DOMAIN report : u \in DOMAIN crawled /\ crawled[u].err # "nil"
    /\ \E u \in DOMAIN report : u \notin DOMAIN crawled /\ u \in Referenced

\* C22: a stored URL whose server answers a transient failure is stored as
\* an empty result without error and has no entry in the report, whatever
\* links to it.
C22_TransientNeverReported ==
    pc = "done" =>
        \A u \in DOMAIN crawled :
            page[removeFragment(ResponseURL(u))].kind = "transient" =>
                /\ crawled[u] = [ids |-> {}, links |-> {}, err |-> "nil"]
                /\ u \notin DOMAIN report

\* The URLs a cancelled crawl did not finish: still queued, in flight, or
\* stored from a fetch that the cancellation cut short.
Unfinished ==
    Range(q.q)
        \cup {wk[w].url : w \in Busy}
        \cup {u \in DOMAIN crawled : crawled[u] # crawledAdd(newCrawledPages, fetch(u))[u]}

\* C23: the report of a cancelled crawl has no entry for a URL that was
\* still queued or in flight at the cancellation, or whose fetch was aborted.
C23_CancelFaultsNoURL ==
    (pc = "done" /\ cancelled) => DOMAIN report \cap Unfinished = {}

\* A link the crawler is to leave alone: its scheme is neither http nor
\* https, or it begins with one of the -exclude prefixes.
Filtered(l) ==
    \/ l = <<>>
    \/ l # <<>> /\ l[1] \notin {"http", "https"}
    \/ \E prefixPath \in ExcludePaths :
           /\ Len(l) >= Len(prefixPath)
           /\ SubSeq(l, 1, Len(prefixPath)) = prefixPath

\* C24: a link with another scheme than http or https, or under an
\* exclusion prefix, is in no stored page's links, is never put in the
\* queue, never sent to a worker, never stored and never a key of the report.
C24_ExcludedNeverSeen ==
    /\ \A pg \in DOMAIN crawled : \A l \in crawled[pg].links : ~Filtered(l)
    /\ \A i \in 1..Len(fifoLog) : ~Filtered(fifoLog[i])
    /\ \A i \in 1..Len(feedLog) : ~Filtered(feedLog[i])
    /\ \A u \in DOMAIN crawled \cup DOMAIN report : ~Filtered(u)

\* C24, its case: the root's document holds an excluded link next to
\* another one, and the root has been fetched, stored and its links queued.
C24_Witness ==
    /\ pc = "done" /\ ~cancelled
    /\ page[Home].kind = "html"
    /\ \E i \in 1..Len(page[Home].doc) :
           page[Home].doc[i].href \in {Excl, Mail} /\ Filtered(page[Home].doc[i].href)
    /\ Home \in DOMAIN crawled /\ crawled[Home].links # {}
    /\ Len(fifoLog) >= 2

\* The stored keys that do not have the root as a prefix.
External == {pg \in DOMAIN crawled : ~HasPrefix(pg, root)}

\* Every URL put in the queue after the root is a link, its fragment
\* stripped, of a stored page under the root.
EnqueuedFromSite ==
    \A i \in 2..Len(fifoLog) :
        \E pg \in DOMAIN crawled :
            /\ HasPrefix(pg, root)
            /\ \E l \in crawled[pg].links : removeFragment(l) = fifoLog[i]

NoRefs == [pg \in {} |-> 0]

\* C26: when the root answers 404 and no SIGINT arrives, the crawl sends
\* one URL to the workers, the root, and the report has one entry, for the
\* root, with the 404 error and no refs, whatever the number of workers.
C26_RootNotFound ==
    (pc = "done" /\ ~interrupted /\ page[removeFragment(root)].kind = "404") =>
        /\ feedLog = <<root>>
        /\ storeLog = <<root>>
        /\ DOMAIN report = {root}
        /\ report[root] = [err |-> "404", refs |-> NoRefs, missingFragments |-> {}]
        /\ returned = <<ErrBadLinks>>

\* C26, its case: two workers, the root answered 404 and the crawl ended.
C26_Witness ==
    /\ pc = "done" /\ ~interrupted
    /\ workers = MaxWorkers
    /\ page[removeFragment(root)].kind = "404"
    /\ root \in DOMAIN report

\* C27: when the root answers something that is not HTML and no SIGINT
\* arrives, the root is stored as an empty page without error, nothing else
\* is queued or sent, and the report is empty.
C27_RootNotHTML ==
    (pc = "done" /\ ~interrupted /\ page[removeFragment(root)].kind = "nonhtml") =>
        /\ fifoLog = <<root>>
        /\ feedLog = <<root>>
        /\ storeLog = <<root>>
        /\ crawled[root] = [ids |-> {}, links |-> {}, err |-> "nil"]
        /\ DOMAIN report = {}
        /\ returned = <<Nil>>

\* C27, its case: the root answered a non-HTML response, was stored, and
\* the crawl ended.
C27_Witness ==
    /\ pc = "done" /\ ~interrupted
    /\ page[removeFragment(root)].kind = "nonhtml"
    /\ root \in DOMAIN crawled
    /\ returned = <<Nil>>

\* The fragments of the fragment-only links (#foo, foo not empty and not a
\* #! one) in the document a stored page under the root was read from, the
\* page being stored from a whole fetch of its own URL.
FragmentOnly(P) ==
    IF /\ HasPrefix(P, root)
       /\ ResponseURL(P) = P
       /\ page[removeFragment(P)].kind = "html"
       /\ crawled[P] = crawledAdd(newCrawledPages, fetch(P))[P]
    THEN LET doc == page[removeFragment(P)].doc
         IN  {SubSeq(doc[i].href, 2, Len(doc[i].href)) : i \in
                 {j \in 1..Len(doc) :
                     /\ doc[j].tag = "a"
                     /\ Len(doc[j].href) >= 2
                     /\ doc[j].href[1] = "#"
                     /\ doc[j].href[2] # "!"}}
    ELSE {}

\* C28: a link #foo on a stored page P under the root is the link P#foo:
\* its fragment-stripped form is P, which the queue has seen, so nothing is
\* queued for it; the report has a MissingFragment entry for P holding foo
\* and naming P in refs when foo is no id of P, and no foo on P otherwise.
C28_FragmentOnlyLink ==
    pc = "done" =>
        \A P \in DOMAIN crawled : \A foo \in FragmentOnly(P) :
            /\ \E l \in crawled[P].links : removeFragment(l) = P /\ Fragment(l) = foo
            /\ \A l \in crawled[P].links : Fragment(l) = foo => removeFragment(l) = P
            /\ IF foo \in crawled[P].ids
               THEN P \in DOMAIN report => foo \notin report[P].missingFragments
               ELSE /\ P \in DOMAIN report
                    /\ report[P].err = ErrMissingFragment
                    /\ foo \in report[P].missingFragments
                    /\ P \in DOMAIN report[P].refs

\* The links of the stored pages under the root whose fragment starts
\* with '!', each with its page.
BangLinks ==
    {pl \in UNION {{<<x, y>> : y \in crawled[x].links} : x \in DOMAIN crawled} :
        HasPrefix(pl[1], root) /\ HasPrefix(Fragment(pl[2]), <<"!">>)}

\* C29: no fragment starting with '!' is in a missingFragments set of the
\* report, and a page is among the refs of a MissingFragment entry only for
\* a link of another kind than #!, whatever the target page holds.
C29_BangFragmentsIgnored ==
    pc = "done" =>
        /\ \A u \in DOMAIN report :
               \A f \in report[u].missingFragments : ~HasPrefix(f, <<"!">>)
        /\ \A pl \in BangLinks :
               LET u == removeFragment(pl[2])
               IN  (u \in DOMAIN report /\ report[u].err = ErrMissingFragment
                        /\ pl[1] \in DOMAIN report[u].refs)
                       => pl[1] \in MissingReferrers(u)

\* C29, its case: the root links to a#!j, page a was fetched and holds no
\* id !j, and the report of the completed crawl has no fragment error on a.
C29_Witness ==
    /\ pc = "done" /\ ~cancelled
    /\ <<Home, Frag(PageA, <<"!", "j">>)>> \in BangLinks
    /\ PageA \in DOMAIN crawled /\ crawled[PageA].err = "nil"
    /\ <<"!", "j">> \notin crawled[PageA].ids
    /\ PageA \notin DOMAIN report

\* The number of times page u went to the archival endpoint.
Submissions(u) == Cardinality({i \in 1..Len(submitted) : submitted[i] = u})

\* The fetch of u succeeded: the server answered neither an error that is
\* reported (404, 410, DNS) nor a transient failure that is swallowed.
Succeeded(u) ==
    page[removeFragment(ResponseURL(u))].kind \notin (Reportable \cup {"transient"})

\* C30: when archiveAll has returned, no SIGINT having come, every key of
\* the page store went to the archival endpoint once if its fetch succeeded
\* and never if it did not, and one result was collected for each page sent.
C30_ArchivesSucceededOnly ==
    (apc = "returned" /\ ~asig) =>
        /\ \A u \in DOMAIN crawled :
               Submissions(u) = IF Succeeded(u) THEN 1 ELSE 0
        /\ Range(submitted) \subseteq DOMAIN crawled
        /\ Len(errors) = Len(submitted)

\* C31 as stated: when an archive submission has failed, run ends with
\* exit code 5.
C31_ArchiveErrorExits5 ==
    (apc = "returned" /\ Merge(errors) # "nil") =>
        (Len(returned) = 1 /\ returned[1].code = 5)

\* C31, amended: an error of archiveAll is logged as a warning and leaves
\* the outcome of run alone: run returns what the crawl and the report
\* give, with exit code 0, 3 or 4 and never 5.
C31_ArchiveErrorOnlyWarns ==
    apc = "returned" =>
        /\ Len(returned) = 1
        /\ returned[1] = (IF cancelled THEN ErrCancelled
                          ELSE IF DOMAIN report # {} THEN ErrBadLinks ELSE Nil)
        /\ returned[1].code \in {0, 3, 4}

\* C31, its case: an archive request failed, archiveAll returned the
\* error, and run returned nil.
C31_Witness ==
    /\ apc = "returned"
    /\ \E i \in 1..Len(errors) : errors[i] = "failed"
    /\ returned = <<Nil>>

\* The stored pages under the root that were stored from a whole fetch of
\* their own URL, which answered a document.
WholePages ==
    {P \in DOMAIN crawled :
        /\ HasPrefix(P, root)
        /\ ResponseURL(P) = P
        /\ page[removeFragment(P)].kind = "html"
        /\ crawled[P] = crawledAdd(newCrawledPages, fetch(P))[P]}

\* The links of the anchors of P's document that have an href with
\* something in it, resolved against P, the filtered ones left out.
HrefLinks(P) ==
    LET doc == page[removeFragment(P)].doc
    IN  {l \in {resolveRef(P, doc[i].href) : i \in
                   {j \in 1..Len(doc) :
                       doc[j].tag = "a" /\ doc[j].href \notin {NoAttr, <<>>}}} :
            ~Filtered(l)}

\* C32: an anchor whose href is empty or missing adds nothing to the links
\* of its page: the stored links of a page are those of its anchors that
\* have an href with something in it.
C32_EmptyHrefNoLink ==
    \A P \in WholePages : crawled[P].links = HrefLinks(P)

\* C33: in every state of the crawl the in-flight counter is the number of
\* sends on workerqueue less the number of results received, which is the
\* number of workers holding a URL or a result, and it is never negative.
C33_CounterIsSendsLessReceives ==
    /\ openFetchs = Len(feedLog) - Len(storeLog)
    /\ openFetchs = Cardinality(Busy)
    /\ openFetchs >= 0

\* C33, its case: results have been received and two fetches are in flight.
C33_Witness ==
    /\ pc = "loop"
    /\ Len(storeLog) >= 1
    /\ openFetchs = 2
    /\ Len(feedLog) = Len(storeLog) + 2

\* How many times u occurs in the log s.
Occurrences(s, u) == Cardinality({i \in 1..Len(s) : s[i] = u})

\* C34: every URL sent on workerqueue was sent once and is either held by
\* exactly one worker, fetching it or offering its result, or has exactly
\* one result received and none held; a worker offers the result of the URL
\* it took, no result is received for a URL that was not sent, and when the
\* loop has ended without cancel each URL sent has its one result received.
C34_OneWorkerOneResult ==
    /\ \A u \in Range(feedLog) :
           /\ Occurrences(feedLog, u) = 1
           /\ Occurrences(storeLog, u) + Cardinality({w \in Busy : wk[w].url = u}) = 1
    /\ Range(storeLog) \subseteq Range(feedLog)
    /\ \A w \in Busy : wk[w].url \in Range(feedLog)
    /\ \A w \in Workers : wk[w].st = "send" => wk[w].res.url = wk[w].url
    /\ Drained => \A u \in Range(feedLog) : Occurrences(storeLog, u) = 1

\* C34, its case: two workers hold two different URLs that were sent, one
\* fetching and one offering its result, while a third URL has its result
\* received.
C34_Witness ==
    /\ Len(storeLog) >= 1
    /\ \E v, w \in Workers :
           /\ wk[v].st = "fetch" /\ wk[w].st = "send"
           /\ wk[v].url # wk[w].url
           /\ {wk[v].url, wk[w].url} \subseteq Range(feedLog)

\* Where a URL of the queue's membership set is: 0 waiting in the FIFO,
\* 1 in flight, 2 a key of the page store.
InFifo(u)   == u \in Range(q.q)
InFlight(u) == \E w \in Busy : wk[w].url = u
Stored(u)   == u \in DOMAIN crawled
Stage(u)    == IF Stored(u) THEN 2 ELSE IF InFlight(u) THEN 1 ELSE 0

\* Every URL of the membership set is in exactly one place, and every key
\* of the page store was sent to a worker before.
OnePlace ==
    /\ \A u \in q.m :
           /\ InFifo(u) \/ InFlight(u) \/ Stored(u)
           /\ ~(InFifo(u) /\ InFlight(u))
           /\ ~(InFifo(u) /\ Stored(u))
           /\ ~(InFlight(u) /\ Stored(u))
    /\ DOMAIN crawled \subseteq Range(feedLog)
    /\ DOMAIN crawled \subseteq q.m

\* C35: at every step each URL of the queue's membership set is in exactly
\* one of the FIFO, the workers' hands and the page store, every key of the
\* store was dispatched, and no step moves a URL back: from the store to a
\* worker or the FIFO, or from a worker to the FIFO.
C35_QueueFlightStore ==
    /\ []OnePlace
    /\ [][\A u \in q.m : u \in q.m' /\ Stage(u)' >= Stage(u)]_vars

\* C35, its case: one URL waits in the FIFO, one is in flight and one is
\* stored.
C35_Witness ==
    \E u, v, x \in q.m : InFifo(u) /\ InFlight(v) /\ Stored(x)

\* The URLs a step appended to the FIFO, in the order of the appends.
Appended == SubSeq(fifoLog', Len(fifoLog) + 1, Len(fifoLog'))

\* The key a receive step wrote to the page store.
Ingested == storeLog'[Len(storeLog')]

\* The links found on the page a receive step ingested, in the order of
\* their discovery in the document.
Discovered ==
    IF IngestLinks(Ingested) /\ crawled'[Ingested].links # {}
    THEN doFetch(Ingested).links ELSE <<>>

\* The queue serves in the order of the appends: what was sent to the
\* workers and what still waits make up, in that order, all that was ever
\* appended; a send takes the head and pophead removes exactly it.
Fifo ==
    /\ [](fifoLog = feedLog \o q.q)
    /\ [](queueHead(q) = IF q.q = <<>> THEN <<>> ELSE q.q[1])
    /\ [][feedLog' # feedLog =>
              /\ feedLog' = Append(feedLog, queueHead(q))
              /\ q'.q = Tail(q.q)]_vars

\* C36 as stated: the queue is FIFO, and the links of an ingested page are
\* appended in the order of their discovery on the page.
C36_DiscoveryOrder ==
    /\ Fifo
    /\ [][storeLog' # storeLog => q' = addEach(q, Discovered)]_vars

\* C36, amended: the queue is FIFO, and the new links of an ingested page
\* are appended once each, in some order: that of the range over the map
\* of its links, not that of the document.
C36_FifoOfAppends ==
    /\ Fifo
    /\ [][storeLog' # storeLog =>
              /\ NoDuplicates(Appended)
              /\ Range(Appended) =
                     {removeFragment(Discovered[i]) : i \in 1..Len(Discovered)} \ q.m
              /\ q'.q = q.q \o Appended
              /\ q'.m = q.m \cup Range(Appended)]_vars

\* C36, its case: the root's document links to the external page and then
\* to the page under it; they were appended in the other order, and sent
\* to the workers in the order of the appends.
C36_Witness ==
    /\ root = Home
    /\ page[Home] = Html(<< Anchor(ExtE), Anchor(PageA), Anchor(<<>>) >>)
    /\ fifoLog = <<Home, PageA, ExtE>>
    /\ feedLog = <<Home, PageA, ExtE>>

\* C37: with the queue empty no send happens, whatever the workers do: the
\* empty value of head is never sent, and a step taken with the queue empty
\* sends nothing, does not raise the in-flight counter and pops nothing.
C37_NoSendFromEmptyQueue ==
    /\ [](\A i \in 1..Len(feedLog) : feedLog[i] # <<>>)
    /\ [][queueEmpty(q) =>
              /\ feedLog' = feedLog
              /\ openFetchs' <= openFetchs
              /\ \A w \in Workers : wk[w].st = "recv" => wk'[w].st # "fetch"]_vars

\* C37, its case: the queue is empty while the loop runs with a fetch in
\* flight and a worker idle at its receive.
C37_Witness ==
    /\ pc = "loop" /\ LoopCond
    /\ queueEmpty(q) /\ queueHead(q) = <<>>
    /\ openFetchs > 0
    /\ \E w \in Workers : AtReceive(w)

\* Some worker is inside c.fetch, which returns without waiting for anyone.
Fetching == \E w \in Workers : wk[w].st = "fetch"

\* Some step of the crawl proper is enabled: the coordinator can send, or
\* some worker can hand over its result or finish its fetch.
CanStep ==
    \/ ENABLED (\E w \in Workers : Send(w))
    \/ ENABLED (\E w \in Workers : Receive(w))
    \/ Fetching

\* Every worker is blocked sending its result.
AllBlockedSending == \A w \in Workers : wk[w].st = "send"

\* C38: while the crawl has not been cancelled it never deadlocks: whenever
\* the queue is non-empty or a fetch is in flight some step is enabled, and
\* with a URL on offer and every worker blocked on its result the
\* coordinator can still receive.
C38_NoDeadlock ==
    /\ (pc = "loop" /\ ~cancelled /\ (~queueEmpty(q) \/ openFetchs > 0)) => CanStep
    /\ (pc = "loop" /\ ~cancelled /\ ~queueEmpty(q) /\ AllBlockedSending)
           => ENABLED (\E w \in Workers : Receive(w))

\* C38, its case: no interrupt, a URL on offer and all the workers blocked
\* sending their results.
C38_Witness ==
    /\ pc = "loop" /\ ~interrupted /\ ~cancelled
    /\ ~queueEmpty(q)
    /\ openFetchs = workers
    /\ AllBlockedSending

\* C39: in every entry of the report each referring page is listed in refs
\* at most once, however many links to the entry's URL, differing in their
\* fragments, the page holds.
C39_RefsOncePerPage ==
    pc = "done" =>
        \A u \in DOMAIN report :
            \A pg \in DOMAIN report[u].refs : report[u].refs[pg] <= 1

\* pagesCh and errCh are closed: archiveAll has returned and its deferred
\* calls have run.
ChannelsClosed == apc = "returned"

\* The archive workers that hold a page: they will send on errCh.
Archiving == {w \in Workers : aw[w].st \in {"work", "send"}}

\* C40: in archiveAll nothing is sent on a closed channel, SIGINT or not.
\* The channels are closed only with the pending list empty and nothing in
\* flight; the in-flight count is the number of workers that hold a page, so
\* by then no worker is left to send on errCh; afterwards no page is handed
\* out, and the only step of a worker is to leave its `range pagesCh`.
C40_NoSendOnClosedChannel ==
    /\ [](/\ inflightRequests = Cardinality(Archiving)
          /\ ChannelsClosed =>
                 /\ queue = <<>> /\ inflightRequests = 0
                 /\ Archiving = {}
                 /\ \A w \in Workers :
                        aw[w].st = "recv" => ENABLED ArchiveWorkerExit(w))
    /\ [][ChannelsClosed =>
              /\ ChannelsClosed'
              /\ queue' = queue /\ errors' = errors /\ submitted' = submitted
              /\ \A w \in Workers :
                     aw'[w] # aw[w] => aw[w].st = "recv" /\ aw'[w].st = "exit"]_vars

\* C40, its case: SIGINT came while pages were in flight, every good page
\* was handed out and its result collected, the channels are closed and a
\* worker has left its loop while another is still at its receive.
C40_Witness ==
    /\ ChannelsClosed /\ asig
    /\ Len(errors) >= 2
    /\ \E i \in 1..Len(errors) : errors[i] = "canceled"
    /\ \E w \in Workers : aw[w].st = "exit"
    /\ \E w \in Workers : aw[w].st = "recv"
====
